---- MODULE Spec2Model ----
(***************************************************************************)
(* Model of .github/scripts/check_dependencies.py: the entry point runs    *)
(* check_dependency_conflicts, check_critical_versions and                 *)
(* generate_dependency_report in sequence and calls sys.exit with 0 or 1.   *)
(* Every print may fail to write to standard output; an exception that     *)
(* leaves a function ends the process with a traceback.                    *)
(*                                                                         *)
(* Text is modelled as a sequence of one-character strings, so that        *)
(* str.split, str.strip, str.startswith and the parsing of version strings *)
(* are computed as the code computes them.  JSON text is modelled as a     *)
(* sequence of lexical tokens (punctuation, string literals, numbers and   *)
(* whitespace); json.loads and json.dump are a parser and a printer over   *)
(* such token sequences.                                                   *)
(***************************************************************************)
EXTENDS Integers, Sequences, FiniteSets, TLC

VARIABLES
    pc,           \* position of the entry point (lines 100-110)
    conflicts_ok, \* line 101: value returned by check_dependency_conflicts
    versions_ok,  \* line 102: value returned by check_critical_versions
    all_ok,       \* line 43: local of check_critical_versions
    idx,          \* line 45: position of the for loop in critical_packages
    shown,        \* results of the 'pip show' calls of the running loop
    verdicts,     \* message printed for each package of the running loop
    check_result, \* result of the 'pip check' call (line 15)
    list_result,  \* result of the 'pip list' call and of the file write
    calls,        \* external commands invoked so far, in order
    file,         \* dependency_report.json in the working directory
    exit_code,    \* process exit status, -1 while running
    traceback,    \* function an uncaught exception was raised in, "" for none
    sys_stdout,   \* standard output: open, and flushed (or not) at exit
    va, vb, lt    \* operands and result of one version comparison

vars == <<pc, conflicts_ok, versions_ok, all_ok, idx, shown, verdicts,
          check_result, list_result, calls, file, exit_code,
          traceback, sys_stdout, va, vb, lt>>

(***************************************************************************)
(* Python str operations on character sequences.  The characters are those *)
(* of Latin-1; the whitespace of str.strip() beyond U+00FF is not part of  *)
(* the alphabet.                                                           *)
(***************************************************************************)
\* The characters c with c.isspace(): space, \t, \n, \r, \f, \x0b,
\* \x1c-\x1f, \x85 and \xa0.
Whitespace ==
    {" ", "\n", "\t", "\r", "\f", "", "", "", "", "",
     "", " "}

\* The printable ASCII characters from code point 32 to 95 and from 97 to
\* 126; the grave accent (96) is not part of the alphabet.
PrintableLow ==
    << " ", "!", "\"", "#", "$", "%", "&", "'", "(", ")",
       "*", "+", ",", "-", ".", "/", "0", "1", "2", "3",
       "4", "5", "6", "7", "8", "9", ":", ";", "<", "=",
       ">", "?", "@", "A", "B", "C", "D", "E", "F", "G",
       "H", "I", "J", "K", "L", "M", "N", "O", "P", "Q",
       "R", "S", "T", "U", "V", "W", "X", "Y", "Z", "[",
       "\\", "]", "^", "_" >>
PrintableHigh ==
    << "a", "b", "c", "d", "e", "f", "g", "h", "i", "j",
       "k", "l", "m", "n", "o", "p", "q", "r", "s", "t",
       "u", "v", "w", "x", "y", "z", "{", "|", "}", "~" >>

\* The characters of the alphabet.
Alphabet ==
    {PrintableLow[i] : i \in 1..Len(PrintableLow)}
    \cup {PrintableHigh[i] : i \in 1..Len(PrintableHigh)}
    \cup Whitespace

CodePoints ==
    [c \in Alphabet |->
        IF \E i \in 1..Len(PrintableLow) : PrintableLow[i] = c
        THEN 31 + (CHOOSE i \in 1..Len(PrintableLow) : PrintableLow[i] = c)
        ELSE IF \E i \in 1..Len(PrintableHigh) : PrintableHigh[i] = c
        THEN 96 + (CHOOSE i \in 1..Len(PrintableHigh) : PrintableHigh[i] = c)
        ELSE CASE c = "\t" -> 9 [] c = "\n" -> 10 [] c = "" -> 11
               [] c = "\f" -> 12 [] c = "\r" -> 13 [] c = "" -> 28
               [] c = "" -> 29 [] c = "" -> 30 [] c = "" -> 31
               [] c = "" -> 133 [] c = " " -> 160]

\* ord(c)
Ord(c) == CodePoints[c]

StartsWith(s, p) ==
    /\ Len(s) >= Len(p)
    /\ SubSeq(s, 1, Len(p)) = p

FirstIndex(s, c) ==
    CHOOSE i \in 1..Len(s) : s[i] = c /\ \A j \in 1..(i - 1) : s[j] # c

RECURSIVE Split(_, _)
Split(s, sep) ==
    IF \E i \in 1..Len(s) : s[i] = sep
    THEN LET i == FirstIndex(s, sep)
         IN  <<SubSeq(s, 1, i - 1)>> \o Split(SubSeq(s, i + 1, Len(s)), sep)
    ELSE <<s>>

RECURSIVE LStrip(_)
LStrip(s) ==
    IF s # <<>> /\ Head(s) \in Whitespace THEN LStrip(Tail(s)) ELSE s

RECURSIVE RStrip(_)
RStrip(s) ==
    IF s # <<>> /\ s[Len(s)] \in Whitespace
    THEN RStrip(SubSeq(s, 1, Len(s) - 1))
    ELSE s

Strip(s) == RStrip(LStrip(s))

\* c.lower() for an ASCII character.
LowerCase ==
    [c \in Alphabet |->
        IF Ord(c) \in 65..90 THEN PrintableHigh[Ord(c) + 32 - 96] ELSE c]

LowerChar(c) == LowerCase[c]

Lower(s) == [i \in 1..Len(s) |-> LowerChar(s[i])]

Min(S) == CHOOSE x \in S : \A y \in S : x <= y

DigitChar(d) ==
    CASE d = 0 -> "0" [] d = 1 -> "1" [] d = 2 -> "2" [] d = 3 -> "3"
      [] d = 4 -> "4" [] d = 5 -> "5" [] d = 6 -> "6" [] d = 7 -> "7"
      [] d = 8 -> "8" [] d = 9 -> "9"

\* str(n) for a natural number n.
RECURSIVE ToDigits(_)
ToDigits(n) ==
    IF n < 10 THEN <<DigitChar(n)>>
    ELSE ToDigits(n \div 10) \o <<DigitChar(n % 10)>>

\* ''.join(cs): the string of the characters cs.
RECURSIVE Text(_)
Text(cs) == IF cs = <<>> THEN "" ELSE Head(cs) \o Text(Tail(cs))

Zeros(n) == [i \in 1..n |-> "0"]

(***************************************************************************)
(* packaging.version.parse: the PEP 440 pattern (optional v, epoch,        *)
(* release, pre-, post- and dev-release, local version), matched without   *)
(* regard to case, and the key by which Version objects are ordered.       *)
(***************************************************************************)
DigitChars == {"0", "1", "2", "3", "4", "5", "6", "7", "8", "9"}
LowerLetters == {PrintableHigh[i] : i \in 1..26}
Separators == {"-", "_", "."}

DigitVal(c) == Ord(c) - 48

RECURSIVE DecimalValue(_)
DecimalValue(ds) ==
    IF ds = <<>> THEN 0
    ELSE 10 * DecimalValue(SubSeq(ds, 1, Len(ds) - 1)) + DigitVal(ds[Len(ds)])

IsNumber(part) ==
    /\ part # <<>>
    /\ \A i \in 1..Len(part) : part[i] \in DigitChars

\* The position after the longest run of characters of class from i on.
RECURSIVE RunEnd(_, _, _)
RunEnd(s, i, class) ==
    IF i <= Len(s) /\ s[i] \in class THEN RunEnd(s, i + 1, class) ELSE i

HasWord(s, i, w) ==
    /\ i + Len(w) - 1 <= Len(s)
    /\ SubSeq(s, i, i + Len(w) - 1) = w

\* [-_\.]?
SkipSep(s, i) == IF i <= Len(s) /\ s[i] \in Separators THEN i + 1 ELSE i

\* alpha|a|beta|b|preview|pre|c|rc
PreWords ==
    << <<"a", "l", "p", "h", "a">>, <<"a">>, <<"b", "e", "t", "a">>, <<"b">>,
       <<"p", "r", "e", "v", "i", "e", "w">>, <<"p", "r", "e">>, <<"c">>, <<"r", "c">> >>
\* post|rev|r
PostWords == << <<"p", "o", "s", "t">>, <<"r", "e", "v">>, <<"r">> >>
DevWords == << <<"d", "e", "v">> >>

NoSegment(i) == [found |-> FALSE, word |-> 0, n |-> 0, next |-> i]

\* [-_\.]? word [-_\.]? [0-9]* with word the first of words that matches;
\* a missing number counts as 0.
LabelledSegment(s, i, words) ==
    LET a == SkipSep(s, i)
        hits == {k \in 1..Len(words) : HasWord(s, a, words[k])}
    IN  IF hits = {} THEN NoSegment(i)
        ELSE LET b == SkipSep(s, a + Len(words[Min(hits)]))
                 e == RunEnd(s, b, DigitChars)
             IN  [found |-> TRUE, word |-> Min(hits),
                  n |-> DecimalValue(SubSeq(s, b, e - 1)), next |-> e]

\* The post-release: -N, or a labelled segment.
PostSegment(s, i) ==
    IF HasWord(s, i, <<"-">>) /\ RunEnd(s, i + 1, DigitChars) > i + 1
    THEN [found |-> TRUE, word |-> 1,
          n |-> DecimalValue(SubSeq(s, i + 1, RunEnd(s, i + 1, DigitChars) - 1)),
          next |-> RunEnd(s, i + 1, DigitChars)]
    ELSE LabelledSegment(s, i, PostWords)

\* The release: [0-9]+(\.[0-9]+)*, from i on; nums is empty when none.
RECURSIVE ReleaseFrom(_, _, _)
ReleaseFrom(s, i, acc) ==
    LET e == RunEnd(s, i, DigitChars)
    IN  IF e = i THEN [nums |-> acc, next |-> i - 1]
        ELSE LET nums == Append(acc, DecimalValue(SubSeq(s, i, e - 1)))
             IN  IF HasWord(s, e, <<".">>) /\ RunEnd(s, e + 1, DigitChars) > e + 1
                 THEN ReleaseFrom(s, e + 1, nums)
                 ELSE [nums |-> nums, next |-> e]

\* A part of the local version: an integer, or a lower-case string.
LocalPart(w) ==
    IF IsNumber(w) THEN [isnum |-> TRUE, n |-> DecimalValue(w), str |-> <<>>]
    ELSE [isnum |-> FALSE, n |-> 0, str |-> w]

\* The local version: [a-z0-9]+([-_\.][a-z0-9]+)* after the plus sign.
RECURSIVE LocalFrom(_, _, _)
LocalFrom(s, i, acc) ==
    LET e == RunEnd(s, i, DigitChars \cup LowerLetters)
    IN  IF e = i THEN [ok |-> FALSE, parts |-> <<>>, next |-> i]
        ELSE LET parts == Append(acc, LocalPart(SubSeq(s, i, e - 1)))
             IN  IF e <= Len(s) /\ s[e] \in Separators
                 THEN LocalFrom(s, e + 1, parts)
                 ELSE [ok |-> TRUE, parts |-> parts, next |-> e]

InvalidVersion ==
    [ok |-> FALSE, epoch |-> 0, release |-> <<>>, pre |-> NoSegment(0),
     post |-> NoSegment(0), dev |-> NoSegment(0), haslocal |-> FALSE,
     local |-> <<>>]

\* version.parse(text): the parts of the version, or InvalidVersion.
ParseVersion(text) ==
    LET s == Lower(Strip(text))
        v == IF HasWord(s, 1, <<"v">>) THEN 2 ELSE 1
        ep == RunEnd(s, v, DigitChars)
        hasepoch == ep > v /\ HasWord(s, ep, <<"!">>)
        r == ReleaseFrom(s, IF hasepoch THEN ep + 1 ELSE v, <<>>)
        pre == LabelledSegment(s, r.next, PreWords)
        post == PostSegment(s, pre.next)
        dev == LabelledSegment(s, post.next, DevWords)
        haslocal == HasWord(s, dev.next, <<"+">>)
        loc == IF haslocal THEN LocalFrom(s, dev.next + 1, <<>>)
               ELSE [ok |-> TRUE, parts |-> <<>>, next |-> dev.next]
    IN  IF r.nums # <<>> /\ loc.ok /\ loc.next = Len(s) + 1
        THEN [ok |-> TRUE,
              epoch |-> IF hasepoch THEN DecimalValue(SubSeq(s, v, ep - 1)) ELSE 0,
              release |-> r.nums, pre |-> pre, post |-> post, dev |-> dev,
              haslocal |-> haslocal, local |-> loc.parts]
        ELSE InvalidVersion

\* The release with its trailing zeros dropped.
RECURSIVE CmpKey(_)
CmpKey(release) ==
    IF release # <<>> /\ release[Len(release)] = 0
    THEN CmpKey(SubSeq(release, 1, Len(release) - 1))
    ELSE release

\* a, alpha: 1; b, beta: 2; c, rc, pre, preview: 3.
PreRank(word) == IF word <= 2 THEN 1 ELSE IF word <= 4 THEN 2 ELSE 3

\* Version._key without the local version, as tuples of integers: a dev
\* release without pre and post sorts before every pre-release, no
\* pre-release after them; no post-release before every post-release; no
\* dev-release after every dev-release.
VersionKey(p) ==
    [epoch |-> p.epoch,
     release |-> CmpKey(p.release),
     pre |-> IF p.pre.found THEN <<PreRank(p.pre.word), p.pre.n>>
             ELSE IF ~p.post.found /\ p.dev.found THEN <<0, 0>>
             ELSE <<4, 0>>,
     post |-> IF p.post.found THEN <<1, p.post.n>> ELSE <<0, 0>>,
     dev |-> IF p.dev.found THEN <<0, p.dev.n>> ELSE <<1, 0>>]

\* Python's ordering of tuples of integers.
RECURSIVE TupleLess(_, _)
TupleLess(a, b) ==
    IF a = <<>> THEN b # <<>>
    ELSE IF b = <<>> THEN FALSE
    ELSE IF Head(a) # Head(b) THEN Head(a) < Head(b)
    ELSE TupleLess(Tail(a), Tail(b))

\* The ordering of strings by the code points of their characters.
RECURSIVE StrLess(_, _)
StrLess(a, b) ==
    IF a = <<>> THEN b # <<>>
    ELSE IF b = <<>> THEN FALSE
    ELSE IF Head(a) # Head(b) THEN Ord(Head(a)) < Ord(Head(b))
    ELSE StrLess(Tail(a), Tail(b))

\* Parts of a local version: a string sorts before every integer.
LocalPartLess(x, y) ==
    IF x.isnum /\ y.isnum THEN x.n < y.n
    ELSE IF ~x.isnum /\ ~y.isnum THEN StrLess(x.str, y.str)
    ELSE ~x.isnum

RECURSIVE LocalLess(_, _)
LocalLess(a, b) ==
    IF a = <<>> THEN b # <<>>
    ELSE IF b = <<>> THEN FALSE
    ELSE IF Head(a) # Head(b) THEN LocalPartLess(Head(a), Head(b))
    ELSE LocalLess(Tail(a), Tail(b))

\* Version.__lt__ on parsed versions: the keys compared part by part, and
\* no local version before every local version.
ParsedLess(p, q) ==
    LET a == VersionKey(p)
        b == VersionKey(q)
    IN  IF a.epoch # b.epoch THEN a.epoch < b.epoch
        ELSE IF a.release # b.release THEN TupleLess(a.release, b.release)
        ELSE IF a.pre # b.pre THEN TupleLess(a.pre, b.pre)
        ELSE IF a.post # b.post THEN TupleLess(a.post, b.post)
        ELSE IF a.dev # b.dev THEN TupleLess(a.dev, b.dev)
        ELSE IF p.haslocal # q.haslocal THEN q.haslocal
        ELSE LocalLess(p.local, q.local)

\* A comparison that orders the version strings as strings.
VersionLess_lexicographic(a, b) == StrLess(Strip(a), Strip(b))

\* version.parse(a) < version.parse(b), for a and b that parse.
VersionLess(a, b) == ParsedLess(ParseVersion(a), ParseVersion(b))

(***************************************************************************)
(* JSON text as a sequence of tokens, json.loads and json.dump.  A token   *)
(* is a punctuation mark, a string (v is its decoded value, which needs no *)
(* escapes), a numeral, one of the literals, a whitespace character, or a  *)
(* piece of text that is no JSON token at all.                             *)
(***************************************************************************)
Punct(c) == [t |-> "punct", v |-> c]
StrTok(s) == [t |-> "str", v |-> s]
NumTok(n) == [t |-> "num", v |-> n]
LitTok(w) == [t |-> "lit", v |-> w]
WsTok(c) == [t |-> "ws", v |-> c]
PartTok(p) == [t |-> "part", v |-> p]

\* The characters json.loads skips between tokens.
JsonWhitespace == {" ", "\t", "\n", "\r"}
\* The literals json.loads accepts.
JsonLiterals == {"true", "false", "null", "NaN", "Infinity", "-Infinity"}

Chars(str) == [i \in 1..Len(str) |-> SubSeq(str, i, i)]

\* -?(0|[1-9][0-9]*)(\.[0-9]+)?([eE][-+]?[0-9]+)? , the numerals of JSON.
IsJsonNumber(str) ==
    LET s == Chars(str)
        a == IF StartsWith(s, <<"-">>) THEN 2 ELSE 1
        b == RunEnd(s, a, DigitChars)
        intOk == b > a /\ (s[a] = "0" => b = a + 1)
        hasFrac == b <= Len(s) /\ s[b] = "."
        c == IF hasFrac THEN RunEnd(s, b + 1, DigitChars) ELSE b
        fracOk == hasFrac => c > b + 1
        hasExp == c <= Len(s) /\ s[c] \in {"e", "E"}
        d == IF hasExp /\ c + 1 <= Len(s) /\ s[c + 1] \in {"+", "-"}
             THEN c + 2 ELSE c + 1
        e == IF hasExp THEN RunEnd(s, d, DigitChars) ELSE c
        expOk == hasExp => e > d
    IN  intOk /\ fracOk /\ expOk /\ e = Len(s) + 1

\* Python values a JSON document decodes to.  A number is kept as its
\* repr(), which is what json.dump writes for it; the floats inf and -inf
\* are kept with the literals, as json.dump writes them.
JArray(items) == [k |-> "array", s |-> "", items |-> items]
JObject(members) == [k |-> "object", s |-> "", items |-> members]
JString(s) == [k |-> "string", s |-> s, items |-> <<>>]
JNumber(n) == [k |-> "number", s |-> n, items |-> <<>>]
JLiteral(w) == [k |-> "literal", s |-> w, items |-> <<>>]

RECURSIVE StripLeadingZeros(_)
StripLeadingZeros(ds) ==
    IF ds # <<>> /\ Head(ds) = "0" THEN StripLeadingZeros(Tail(ds)) ELSE ds

RECURSIVE StripTrailingZeros(_)
StripTrailingZeros(ds) ==
    IF ds # <<>> /\ ds[Len(ds)] = "0"
    THEN StripTrailingZeros(SubSeq(ds, 1, Len(ds) - 1))
    ELSE ds

\* The first 15 significant digits of the largest float,
\* 1.7976931348623157e+308.
MaxFloatDigits ==
    <<"1", "7", "9", "7", "6", "9", "3", "1", "3", "4", "8", "6", "2", "3", "1">>

\* repr(x) of the float x = 0.D * 10^decpt with D the significant digits:
\* positional between 1e-04 and 1e+16, else with an exponent of at least
\* two digits.
FloatRepr(D, decpt) ==
    IF decpt > -4 /\ decpt <= 16
    THEN IF decpt <= 0 THEN <<"0", ".">> \o Zeros(-decpt) \o D
         ELSE IF decpt >= Len(D)
         THEN D \o Zeros(decpt - Len(D)) \o <<".", "0">>
         ELSE SubSeq(D, 1, decpt) \o <<".">> \o SubSeq(D, decpt + 1, Len(D))
    ELSE <<Head(D)>>
         \o (IF Len(D) > 1 THEN <<".">> \o Tail(D) ELSE <<>>)
         \o <<"e", IF decpt - 1 < 0 THEN "-" ELSE "+">>
         \o (LET x == IF decpt - 1 < 0 THEN 1 - decpt ELSE decpt - 1
             IN  IF x < 10 THEN <<"0">> \o ToDigits(x) ELSE ToDigits(x))

\* float(text) for the digits and the position of the decimal point of a
\* numeral with a fraction or an exponent: zero, inf beyond the largest
\* float, 0.0 below the smallest, and otherwise the float whose shortest
\* repr is the numeral's own significant digits.  That holds for up to 15
\* significant digits and down to 1e-307, which is as far as this goes.
FloatValue(neg, digits, point) ==
    LET D == StripTrailingZeros(StripLeadingZeros(digits))
        decpt == point - (Len(digits) - Len(StripLeadingZeros(digits)))
        sign == IF neg THEN <<"-">> ELSE <<>>
        zero == JNumber(Text(sign \o <<"0", ".", "0">>))
        inf == JLiteral(IF neg THEN "-Infinity" ELSE "Infinity")
    IN  IF D = <<>> THEN zero
        ELSE IF decpt > 309 THEN inf
        ELSE IF decpt <= -324 THEN zero
        ELSE CASE Len(D) <= 15 /\ decpt >= -306 ->
                IF decpt = 309
                   /\ StrLess(MaxFloatDigits, D \o Zeros(15 - Len(D)))
                THEN inf
                ELSE JNumber(Text(sign \o FloatRepr(D, decpt)))

\* The int or float a numeral decodes to: an int without fraction and
\* exponent (int('-0') is 0), else a float.  An exponent of more than five
\* digits is as good as one of 100000.
NumberValue(str) ==
    LET s == Chars(str)
        neg == StartsWith(s, <<"-">>)
        a == IF neg THEN 2 ELSE 1
        b == RunEnd(s, a, DigitChars)
        int == SubSeq(s, a, b - 1)
        hasFrac == b <= Len(s) /\ s[b] = "."
        c == IF hasFrac THEN RunEnd(s, b + 1, DigitChars) ELSE b
        frac == IF hasFrac THEN SubSeq(s, b + 1, c - 1) ELSE <<>>
        hasExp == c <= Len(s)
        expNeg == hasExp /\ c + 1 <= Len(s) /\ s[c + 1] = "-"
        d == IF hasExp /\ c + 1 <= Len(s) /\ s[c + 1] \in {"+", "-"}
             THEN c + 2 ELSE c + 1
        expDigits == IF hasExp THEN StripLeadingZeros(SubSeq(s, d, Len(s)))
                     ELSE <<>>
        expSize == IF Len(expDigits) > 5 THEN 100000
                   ELSE DecimalValue(expDigits)
    IN  IF ~hasFrac /\ ~hasExp
        THEN JNumber(IF int = <<"0">> THEN "0" ELSE Text(SubSeq(s, 1, b - 1)))
        ELSE FloatValue(neg, int \o frac,
                        Len(int) + (IF expNeg THEN -expSize ELSE expSize))

ParseFail == [ok |-> FALSE, val |-> JString(""), next |-> 0]
ParseOk(val, next) == [ok |-> TRUE, val |-> val, next |-> next]

RECURSIVE SkipWs(_, _)
SkipWs(toks, i) ==
    IF i <= Len(toks) /\ toks[i].t = "ws" /\ toks[i].v \in JsonWhitespace
    THEN SkipWs(toks, i + 1) ELSE i

TokenAt(toks, i, tok) == i <= Len(toks) /\ toks[i] = tok

\* dict[key] = val: a key already present keeps its place and takes the
\* new value, a new key goes to the end.
SetMember(members, key, val) ==
    LET at == {i \in 1..Len(members) : members[i].key = key}
    IN  IF at = {} THEN Append(members, [key |-> key, val |-> val])
        ELSE [members EXCEPT ![Min(at)].val = val]

RECURSIVE ParseValue(_, _)
RECURSIVE ParseItems(_, _, _)
RECURSIVE ParseMembers(_, _, _)

ParseValue(toks, i) ==
    LET j == SkipWs(toks, i)
    IN  IF j > Len(toks) THEN ParseFail
        ELSE IF toks[j] = Punct("[")
        THEN IF TokenAt(toks, SkipWs(toks, j + 1), Punct("]"))
             THEN ParseOk(JArray(<<>>), SkipWs(toks, j + 1) + 1)
             ELSE ParseItems(toks, j + 1, <<>>)
        ELSE IF toks[j] = Punct("{")
        THEN IF TokenAt(toks, SkipWs(toks, j + 1), Punct("}"))
             THEN ParseOk(JObject(<<>>), SkipWs(toks, j + 1) + 1)
             ELSE ParseMembers(toks, j + 1, <<>>)
        ELSE IF toks[j].t = "str" THEN ParseOk(JString(toks[j].v), j + 1)
        ELSE IF toks[j].t = "num" /\ IsJsonNumber(toks[j].v)
        THEN ParseOk(NumberValue(toks[j].v), j + 1)
        ELSE IF toks[j].t = "lit" /\ toks[j].v \in JsonLiterals
        THEN ParseOk(JLiteral(toks[j].v), j + 1)
        ELSE ParseFail

ParseItems(toks, i, acc) ==
    LET r == ParseValue(toks, i)
    IN  IF ~r.ok THEN ParseFail
        ELSE LET j == SkipWs(toks, r.next)
             IN  IF TokenAt(toks, j, Punct(","))
                 THEN ParseItems(toks, j + 1, Append(acc, r.val))
                 ELSE IF TokenAt(toks, j, Punct("]"))
                 THEN ParseOk(JArray(Append(acc, r.val)), j + 1)
                 ELSE ParseFail

ParseMembers(toks, i, acc) ==
    LET j == SkipWs(toks, i)
        c == SkipWs(toks, j + 1)
    IN  IF ~(j <= Len(toks) /\ toks[j].t = "str" /\ TokenAt(toks, c, Punct(":")))
        THEN ParseFail
        ELSE LET r == ParseValue(toks, c + 1)
             IN  IF ~r.ok THEN ParseFail
                 ELSE LET e == SkipWs(toks, r.next)
                          m == SetMember(acc, toks[j].v, r.val)
                      IN  IF TokenAt(toks, e, Punct(","))
                          THEN ParseMembers(toks, e + 1, m)
                          ELSE IF TokenAt(toks, e, Punct("}"))
                          THEN ParseOk(JObject(m), e + 1)
                          ELSE ParseFail

\* json.loads(text): the decoded value, or JSONDecodeError (ok = FALSE).
JsonLoads(toks) ==
    LET r == ParseValue(toks, 1)
    IN  IF r.ok /\ SkipWs(toks, r.next) = Len(toks) + 1 THEN r ELSE ParseFail

\* json.dump(..., indent=2): the indentation width.
IndentWidth == 2

NewlineIndent(level) ==
    <<WsTok("\n")>> \o [i \in 1..(IndentWidth * level) |-> WsTok(" ")]

RECURSIVE JsonDump(_, _)
RECURSIVE DumpItems(_, _, _)
RECURSIVE DumpMembers(_, _, _)

JsonDump(val, level) ==
    IF val.k = "array"
    THEN IF val.items = <<>> THEN <<Punct("["), Punct("]")>>
         ELSE <<Punct("[")>> \o DumpItems(val.items, 1, level + 1)
              \o NewlineIndent(level) \o <<Punct("]")>>
    ELSE IF val.k = "object"
    THEN IF val.items = <<>> THEN <<Punct("{"), Punct("}")>>
         ELSE <<Punct("{")>> \o DumpMembers(val.items, 1, level + 1)
              \o NewlineIndent(level) \o <<Punct("}")>>
    ELSE IF val.k = "string" THEN <<StrTok(val.s)>>
    ELSE IF val.k = "number" THEN <<NumTok(val.s)>>
    ELSE <<LitTok(val.s)>>

DumpItems(items, i, level) ==
    IF i > Len(items) THEN <<>>
    ELSE NewlineIndent(level) \o JsonDump(items[i], level)
         \o (IF i < Len(items) THEN <<Punct(",")>> ELSE <<>>)
         \o DumpItems(items, i + 1, level)

DumpMembers(members, i, level) ==
    IF i > Len(members) THEN <<>>
    ELSE NewlineIndent(level)
         \o <<StrTok(members[i].key), Punct(":"), WsTok(" ")>>
         \o JsonDump(members[i].val, level)
         \o (IF i < Len(members) THEN <<Punct(",")>> ELSE <<>>)
         \o DumpMembers(members, i + 1, level)

\* len(packages): the items of a list, the keys of a dict, the characters
\* of a string; TypeError for a number, a boolean or None.
HasLen(val) == val.k \in {"array", "object", "string"}
PyLen(val) == IF val.k = "string" THEN Len(val.s) ELSE Len(val.items)

\* The characters a token takes in the file.
TokText(tok) == IF tok.t = "str" THEN "\"" \o tok.v \o "\"" ELSE tok.v

(***************************************************************************)
(* Python exceptions and the except clauses of the three functions.        *)
(***************************************************************************)
\* The base class of each exception class (the built-in hierarchy, and the
\* classes of json, packaging and subprocess).
ExceptionBase(e) ==
    CASE e \in {"BaseException"} -> "object"
      [] e \in {"Exception", "KeyboardInterrupt", "SystemExit",
                "GeneratorExit"} -> "BaseException"
      [] e \in {"ArithmeticError", "AssertionError", "AttributeError",
                "BufferError", "EOFError", "ImportError", "LookupError",
                "MemoryError", "NameError", "OSError", "ReferenceError",
                "RuntimeError", "StopIteration", "StopAsyncIteration",
                "SyntaxError", "SystemError", "TypeError", "ValueError",
                "Warning", "SubprocessError"} -> "Exception"
      [] e \in {"FloatingPointError", "OverflowError", "ZeroDivisionError"}
            -> "ArithmeticError"
      [] e \in {"ModuleNotFoundError"} -> "ImportError"
      [] e \in {"IndexError", "KeyError"} -> "LookupError"
      [] e \in {"UnboundLocalError"} -> "NameError"
      [] e \in {"BlockingIOError", "ChildProcessError", "ConnectionError",
                "FileExistsError", "FileNotFoundError", "InterruptedError",
                "IsADirectoryError", "NotADirectoryError", "PermissionError",
                "ProcessLookupError", "TimeoutError"} -> "OSError"
      [] e \in {"BrokenPipeError", "ConnectionAbortedError",
                "ConnectionRefusedError", "ConnectionResetError"}
            -> "ConnectionError"
      [] e \in {"NotImplementedError", "RecursionError"} -> "RuntimeError"
      [] e \in {"IndentationError"} -> "SyntaxError"
      [] e \in {"TabError"} -> "IndentationError"
      [] e \in {"UnicodeError", "JSONDecodeError", "InvalidVersion"}
            -> "ValueError"
      [] e \in {"UnicodeDecodeError", "UnicodeEncodeError",
                "UnicodeTranslateError"} -> "UnicodeError"
      [] e \in {"CalledProcessError", "TimeoutExpired"} -> "SubprocessError"

RECURSIVE IsInstance(_, _)
IsInstance(e, cls) ==
    IF e = cls THEN TRUE
    ELSE IF e = "object" THEN FALSE
    ELSE IsInstance(ExceptionBase(e), cls)

ExceptClause_conflicts == "Exception"
ExceptClause_versions == "Exception"
ExceptClause_report == "Exception"

\* No exception is written "".
Escapes(raised, clause) == raised # "" /\ ~IsInstance(raised, clause)

(***************************************************************************)
(* The critical-package table (lines 36-41), in insertion order.  None is  *)
(* written as the empty string: the code only tests the bounds for truth.  *)
(***************************************************************************)
critical_packages ==
    << [package |-> "torch",
        min_ver |-> <<"1", ".", "1", "0", ".", "0">>, max_ver |-> <<>>],
       [package |-> "numpy",
        min_ver |-> <<"1", ".", "2", "1", ".", "0">>,
        max_ver |-> <<"1", ".", "2", "4", ".", "0">>],
       [package |-> "opencv-python",
        min_ver |-> <<"4", ".", "5", ".", "0">>, max_ver |-> <<>>],
       [package |-> "pillow",
        min_ver |-> <<"8", ".", "0", ".", "0">>, max_ver |-> <<>>] >>

Truthy(str) == str # <<>>

(***************************************************************************)
(* Results of subprocess.run: an exception raised by the invocation, or a  *)
(* completed process with its return code and captured standard output.    *)
(***************************************************************************)
Raised(e) == [raises |-> e, returncode |-> 0, stdout |-> <<>>]
Completed(rc, out) == [raises |-> "", returncode |-> rc, stdout |-> out]

\* 'pip check'
CheckResults ==
    { Raised("FileNotFoundError"),
      Completed(0, <<"o", "k", "\n">>),
      Completed(1, <<"c", "o", "n", "f", "l", "i", "c", "t", "\n">>) }

\* Version strings a 'pip show' may report.
CandidateVersions ==
    { <<"1", ".", "9", ".", "0">>,
      <<"1", ".", "2", "2", ".", "0">>,
      <<"4", ".", "5">>,
      <<"9", ".", "0", ".", "0">>,
      <<"2", ".", "1", ".", "0", "+", "c", "u", "1", "2", "1">>,
      <<"1", ".", "x">> }

NameLine == <<"N", "a", "m", "e", ":", " ", "p", "\n">>
VersionPrefix == <<"V", "e", "r", "s", "i", "o", "n", ":">>
HomeLine == <<"H", "o", "m", "e", ":", " ", "h", ":", "/", "\n">>

\* 'pip show <package>'
ShowResults ==
    { Raised("FileNotFoundError"),
      Completed(1, <<>>),
      Completed(0, NameLine \o HomeLine) }
    \cup { Completed(0, NameLine \o VersionPrefix \o <<" ">> \o v
                        \o <<"\n">> \o HomeLine) : v \in CandidateVersions }

(***************************************************************************)
(* Standard output.  A call of print writes to the device as soon as       *)
(* standard output is unbuffered or a terminal, or the text outgrows the   *)
(* buffer; the write fails when the device is full, the reader of the pipe *)
(* is gone or a non-blocking pipe is full, and print then raises OSError.  *)
(* Whether a later write fails as well is up to the environment.  What is  *)
(* still buffered is written when the interpreter exits.                   *)
(***************************************************************************)
\* The exception a call of print raises, "" for none.
PrintOutcomes == {"", "OSError"}

\* The outcomes of a print that the run reaches or does not reach.
Reached(b) == IF b THEN PrintOutcomes ELSE {""}

\* Whether the flush of standard output at interpreter exit succeeds.
FlushOutcomes == {TRUE, FALSE}

\* The exit status of the process: the status the script ended with, or 120
\* when the flush at exit fails.
ProcessStatus(code, flushed) == IF flushed THEN code ELSE 120

\* An exception leaves the function fn.  The entry point (lines 100-110) has
\* no handler: the interpreter prints the traceback and exits with status 1,
\* flushing standard output.  The locals of the functions are gone.
Uncaught(fn) ==
    /\ pc' = "crashed"
    /\ traceback' = fn
    /\ \E flushed \in FlushOutcomes :
        /\ exit_code' = ProcessStatus(1, flushed)
        /\ sys_stdout' = IF flushed THEN "flushed" ELSE "flush_failed"
    /\ all_ok' = FALSE
    /\ idx' = 0
    /\ shown' = <<>>
    /\ verdicts' = <<>>

(***************************************************************************)
(* check_dependency_conflicts (lines 10-30).                               *)
(***************************************************************************)
\* Lines 15-27: the exception raised inside the try, "" for none: the one
\* of the 'pip check' invocation with result r, or the one p of a print
\* that follows it (line 22, or lines 25 and 26).
ConflictsRaised(r, p) == IF r.raises # "" THEN r.raises ELSE p

\* The value returned for the result r of the 'pip check' invocation when
\* raised was raised inside the try and the handler has printed it.
ConflictsReturn(r, raised) ==
    IF raised # "" THEN FALSE
    ELSE r.returncode = 0

(***************************************************************************)
(* One iteration of the loop of check_critical_versions (lines 45-73).     *)
(***************************************************************************)
\* Line 48: the command that shows a package.
ShowCommand(package) == <<"pip", "show", package>>

NoVerdict == [message |-> "", raised |-> ""]
Verdict(m) == [message |-> m, raised |-> ""]
Raises(e) == [message |-> "", raised |-> e]

\* Lines 58-69: the first line starting with 'Version:' decides.
CheckVersionLine(entry, stdout) ==
    LET lines == Split(stdout, "\n")
        hits == {i \in 1..Len(lines) : StartsWith(lines[i], VersionPrefix)}
    IN  IF hits = {} THEN NoVerdict
        ELSE LET pkg_version == Strip(Split(lines[Min(hits)], ":")[2])
                 parses == ParseVersion(pkg_version).ok
             IN  IF Truthy(entry.min_ver) /\ ~parses
                 THEN Raises("InvalidVersion")
                 ELSE IF Truthy(entry.min_ver)
                         /\ VersionLess(pkg_version, entry.min_ver)
                 THEN Verdict("below minimum")
                 ELSE IF Truthy(entry.max_ver) /\ ~parses
                 THEN Raises("InvalidVersion")
                 ELSE IF Truthy(entry.max_ver)
                         /\ VersionLess(entry.max_ver, pkg_version)
                 THEN Verdict("exceeds maximum")
                 ELSE Verdict("valid")

\* Lines 46-69 for one table entry and the result r of its 'pip show': the
\* message to print, or the exception raised before any message.
CheckPackage(entry, r) ==
    IF r.raises # "" THEN Raises(r.raises)
    ELSE IF r.returncode # 0 THEN Verdict("NOT INSTALLED")
    ELSE CheckVersionLine(entry, r.stdout)

\* CheckPackage for every table entry and every 'pip show' result.
Found ==
    [i \in 1..Len(critical_packages) |->
        [r \in ShowResults |-> CheckPackage(critical_packages[i], r)]]

\* Lines 54, 63, 66, 68: the message of v is printed; p is the exception the
\* print raises inside the try.
PrintVerdict(v, p) ==
    IF v.message # "" /\ p # "" THEN [message |-> v.message, raised |-> p]
    ELSE v

\* Lines 45, 56, 69: the loop goes on to the next table entry.
NextIndex(i, v) == i + 1

\* Whether the iteration sets all_ok to False (lines 55, 64, 73).
MarksFailed(v) ==
    \/ v.message \in {"NOT INSTALLED", "below minimum"}
    \/ v.raised # ""

(***************************************************************************)
(* generate_dependency_report (lines 77-98).                               *)
(***************************************************************************)
\* Largest number of installed packages a 'pip list' reports.
MaxInstalled == 2

InstalledName(i) ==
    CASE i = 1 -> "numpy" [] i = 2 -> "torch" [] i = 3 -> "pillow"
      [] OTHER -> "pip"

InstalledVersion(i) ==
    CASE i = 1 -> "1.22.0" [] i = 2 -> "1.12.0" [] i = 3 -> "9.0.0"
      [] OTHER -> "23.0"

\* One element of the output of 'pip list --format=json'.
CompactObject(name, version) ==
    << Punct("{"), StrTok("name"), Punct(":"), WsTok(" "), StrTok(name),
       Punct(","), WsTok(" "), StrTok("version"), Punct(":"), WsTok(" "),
       StrTok(version), Punct("}") >>

RECURSIVE CompactItems(_, _)
CompactItems(i, n) ==
    IF i > n THEN <<>>
    ELSE CompactObject(InstalledName(i), InstalledVersion(i))
         \o (IF i < n THEN <<Punct(","), WsTok(" ")>> ELSE <<>>)
         \o CompactItems(i + 1, n)

\* The output of 'pip list --format=json' with n packages installed.
PipListJson(n) == <<Punct("[")>> \o CompactItems(1, n) \o <<Punct("]")>>

\* 'pip list --format=json': the invocation raises (pip is not found, the
\* output is not text in the locale's encoding), pip fails without output,
\* stops in the middle of its output, prints a JSON document that is no
\* list, or lists the installed packages.  The return code is not looked at.
ListResults ==
    { Raised("FileNotFoundError"),
      Raised("UnicodeDecodeError"),
      Completed(1, <<>>),
      Completed(1, <<Punct("["), Punct("{"), StrTok("name")>>),
      Completed(0, <<NumTok("3")>>),
      Completed(0, <<Punct("["), NumTok("1.50"), Punct(","), WsTok(" "),
                     NumTok("1e5"), Punct("]")>>),
      Completed(0, <<StrTok("pip"), WsTok("\n")>>) }
    \cup { Completed(0, PipListJson(n)) : n \in 0..MaxInstalled }

\* What happens at open(..., 'w') and json.dump (lines 92-93).
WriteOutcomes == {"ok", "open_fails", "write_fails"}

\* A failing write stops after some whole tokens and some characters of
\* the token that follows: at any character of the text but the end.
NoCut == [tokens |-> 0, chars |-> 0]
WriteCuts(text) ==
    UNION { { [tokens |-> k, chars |-> c] :
                c \in 0..(Len(TokText(text[k + 1])) - 1) } :
            k \in 0..(Len(text) - 1) }

Written(text, cut) ==
    SubSeq(text, 1, cut.tokens)
    \o (IF cut.chars = 0 THEN <<>>
        ELSE LET tok == text[cut.tokens + 1]
                 piece == SubSeq(TokText(tok), 1, cut.chars)
             IN  <<IF tok.t = "num" THEN NumTok(piece) ELSE PartTok(piece)>>)

NoFile == [exists |-> FALSE, text |-> <<>>]
FileWith(text) == [exists |-> TRUE, text |-> text]

\* A report left by an earlier run.
OldReport ==
    FileWith(JsonDump(JsonLoads(<<Punct("[")>> \o CompactObject("wheel", "0.1")
                                \o <<Punct("]")>>).val, 0))

PriorFiles == {NoFile, OldReport}

ReportResult(f, raised, count) ==
    [file |-> f, raised |-> raised, count |-> count]

\* Whether the run with the 'pip list' result r reaches the print at line
\* 90: the invocation returned, json.loads parsed the output and the value
\* has a len().
ReachesPrint(r) ==
    /\ r.raises = ""
    /\ JsonLoads(r.stdout).ok
    /\ HasLen(JsonLoads(r.stdout).val)

\* Whether it reaches open() at line 92: p90 is what the print at line 90
\* raises.
ReachesOpen(r, p90) == ReachesPrint(r) /\ p90 = ""

\* A variant that opens the file for appending.
ReportOutcome_append_mode(r, p90, w, cut, p95, old) ==
    IF r.raises # "" THEN ReportResult(old, r.raises, -1)
    ELSE LET packages == JsonLoads(r.stdout)
             text == old.text \o JsonDump(packages.val, 0)
         IN  IF ~packages.ok THEN ReportResult(old, "JSONDecodeError", -1)
             ELSE IF ~HasLen(packages.val) THEN ReportResult(old, "TypeError", -1)
             ELSE IF p90 # "" THEN ReportResult(old, p90, -1)
             ELSE IF w = "open_fails"
             THEN ReportResult(old, "PermissionError", PyLen(packages.val))
             ELSE IF w = "write_fails"
             THEN ReportResult(FileWith(old.text
                                        \o Written(JsonDump(packages.val, 0), cut)),
                               "OSError", PyLen(packages.val))
             ELSE ReportResult(FileWith(text), p95, PyLen(packages.val))

\* A variant that opens (and so truncates) the file before running 'pip list'.
ReportOutcome_opens_first(r, p90, w, cut, p95, old) ==
    IF r.raises # "" THEN ReportResult(FileWith(<<>>), r.raises, -1)
    ELSE LET packages == JsonLoads(r.stdout)
             text == JsonDump(packages.val, 0)
         IN  IF ~packages.ok
             THEN ReportResult(FileWith(<<>>), "JSONDecodeError", -1)
             ELSE IF ~HasLen(packages.val)
             THEN ReportResult(FileWith(<<>>), "TypeError", -1)
             ELSE IF p90 # "" THEN ReportResult(FileWith(<<>>), p90, -1)
             ELSE IF w = "open_fails"
             THEN ReportResult(old, "PermissionError", PyLen(packages.val))
             ELSE IF w = "write_fails"
             THEN ReportResult(FileWith(Written(text, cut)), "OSError",
                               PyLen(packages.val))
             ELSE ReportResult(FileWith(text), p95, PyLen(packages.val))

\* Lines 82-95: the file afterwards, the exception raised inside the try
\* ("" for none) and the count printed at line 90 (-1 when none was), for
\* the 'pip list' result r, the outcome p90 of the print at line 90, the
\* outcome w of the write (stopping at cut), the outcome p95 of the print at
\* line 95 and the file old found in the working directory.
ReportOutcome(r, p90, w, cut, p95, old) ==
    IF r.raises # "" THEN ReportResult(old, r.raises, -1)
    ELSE LET packages == JsonLoads(r.stdout)
             text == JsonDump(packages.val, 0)
         IN  IF ~packages.ok THEN ReportResult(old, "JSONDecodeError", -1)
             ELSE IF ~HasLen(packages.val) THEN ReportResult(old, "TypeError", -1)
             ELSE IF p90 # "" THEN ReportResult(old, p90, -1)
             ELSE IF w = "open_fails"
             THEN ReportResult(old, "PermissionError", PyLen(packages.val))
             ELSE IF w = "write_fails"
             THEN ReportResult(FileWith(Written(text, cut)), "OSError",
                               PyLen(packages.val))
             ELSE ReportResult(FileWith(text), p95, PyLen(packages.val))

\* The text json.dump is about to write, when open() is reached.
DumpText(r) == JsonDump(JsonLoads(r.stdout).val, 0)

\* The points at which the write of the run with result r and outcome w
\* stops short.
CutsOf(r, p90, w) ==
    IF ReachesOpen(r, p90) /\ w = "write_fails" THEN WriteCuts(DumpText(r))
    ELSE {NoCut}

(***************************************************************************)
(* The entry point (lines 100-110).                                        *)
(***************************************************************************)
\* The statement executed after the one at line.
MainNext(line) ==
    CASE line = "main_101" -> "main_102"
      [] line = "main_102" -> "main_103"
      [] OTHER -> "main_105"

\* Lines 105-110: the argument of sys.exit.
ExitStatus(c, v) == IF c /\ v THEN 0 ELSE 1

NoResult == Completed(0, <<>>)
NoListResult == [result |-> NoResult, write |-> "", cut |-> NoCut,
                 raised |-> "", count |-> -1]

NoOperand == [nums |-> <<>>, text |-> <<>>]

Init ==
    /\ pc = "main_101"
    /\ conflicts_ok = FALSE
    /\ versions_ok = FALSE
    /\ all_ok = FALSE
    /\ idx = 0
    /\ shown = <<>>
    /\ verdicts = <<>>
    /\ check_result = NoResult
    /\ list_result = NoListResult
    /\ calls = <<>>
    /\ file \in PriorFiles
    /\ exit_code = -1
    /\ traceback = ""
    /\ sys_stdout = "open"
    /\ va = NoOperand /\ vb = NoOperand /\ lt = FALSE

\* Line 101: conflicts_ok = check_dependency_conflicts().  The print at line
\* 12 is outside the try; an exception raised inside the try is caught at
\* line 28 and printed at line 29, inside the handler.
check_dependency_conflicts ==
    /\ pc = "main_101"
    /\ \E p12 \in PrintOutcomes :
        IF p12 # ""
        THEN /\ Uncaught("check_dependency_conflicts")
             /\ UNCHANGED <<conflicts_ok, check_result, calls>>
        ELSE \E r \in CheckResults :
             \E p \in Reached(r.raises = "") :
             \E raised \in {ConflictsRaised(r, p)} :
             \E p29 \in Reached(raised # ""
                                /\ ~Escapes(raised, ExceptClause_conflicts)) :
                /\ check_result' = r
                /\ calls' = Append(calls, <<"pip", "check">>)
                /\ IF Escapes(raised, ExceptClause_conflicts) \/ p29 # ""
                   THEN /\ Uncaught("check_dependency_conflicts")
                        /\ UNCHANGED conflicts_ok
                   ELSE /\ conflicts_ok' = ConflictsReturn(r, raised)
                        /\ pc' = MainNext(pc)
                        /\ UNCHANGED <<all_ok, idx, shown, verdicts,
                                       exit_code, traceback, sys_stdout>>
    /\ UNCHANGED <<versions_ok, list_result, file, va, vb, lt>>

\* Line 102, lines 34-43: the call of check_critical_versions.  The print
\* at line 34 is outside any try.
check_critical_versions_enter ==
    /\ pc = "main_102"
    /\ idx = 0
    /\ \E p34 \in PrintOutcomes :
        IF p34 # ""
        THEN Uncaught("check_critical_versions")
        ELSE /\ all_ok' = TRUE
             /\ idx' = 1
             /\ UNCHANGED <<pc, shown, verdicts, exit_code, traceback,
                            sys_stdout>>
    /\ UNCHANGED <<conflicts_ok, versions_ok, check_result, list_result,
                   calls, file, va, vb, lt>>

\* Lines 45-73: one iteration of the loop over critical_packages.  An
\* exception raised inside the try, by the invocation, by version.parse or
\* by the print of the verdict, is caught at line 71 and printed at line 72,
\* inside the handler.
check_critical_versions_loop ==
    /\ pc = "main_102"
    /\ idx \in 1..Len(critical_packages)
    /\ \E r \in ShowResults :
       \E found \in {Found[idx][r]} :
       \E p \in Reached(found.message # "") :
       \E v \in {PrintVerdict(found, p)} :
       \E p72 \in Reached(v.raised # ""
                          /\ ~Escapes(v.raised, ExceptClause_versions)) :
            /\ calls' = Append(calls, ShowCommand(critical_packages[idx].package))
            /\ IF Escapes(v.raised, ExceptClause_versions) \/ p72 # ""
               THEN Uncaught("check_critical_versions")
               ELSE /\ shown' = Append(shown, r)
                    /\ verdicts' = Append(verdicts, v)
                    /\ all_ok' = IF MarksFailed(v) THEN FALSE ELSE all_ok
                    /\ idx' = NextIndex(idx, v)
                    /\ UNCHANGED <<pc, exit_code, traceback, sys_stdout>>
    /\ UNCHANGED <<conflicts_ok, versions_ok, check_result, list_result,
                   file, va, vb, lt>>

\* Line 75: return all_ok; the locals of the call are gone afterwards.
check_critical_versions_return ==
    /\ pc = "main_102"
    /\ idx = Len(critical_packages) + 1
    /\ versions_ok' = all_ok
    /\ pc' = MainNext(pc)
    /\ all_ok' = FALSE
    /\ idx' = 0
    /\ shown' = <<>>
    /\ verdicts' = <<>>
    /\ UNCHANGED <<conflicts_ok, check_result, list_result, calls, file,
                   exit_code, traceback, sys_stdout, va, vb, lt>>

\* Line 103: generate_dependency_report().  The print at line 79 is outside
\* the try; an exception raised inside the try, by the invocation, by
\* json.loads, by len, by a print, by open or by the write, is caught at
\* line 97 and printed at line 98, inside the handler.
generate_dependency_report ==
    /\ pc = "main_103"
    /\ \E p79 \in PrintOutcomes :
        IF p79 # ""
        THEN /\ Uncaught("generate_dependency_report")
             /\ UNCHANGED <<list_result, calls, file>>
        ELSE \E r \in ListResults :
             \E p90 \in Reached(ReachesPrint(r)) :
             \E opened \in {ReachesOpen(r, p90)} :
             \E w \in IF opened THEN WriteOutcomes ELSE {"ok"} :
             \E cut \in CutsOf(r, p90, w) :
             \E p95 \in Reached(opened /\ w = "ok") :
             \E out \in {ReportOutcome(r, p90, w, cut, p95, file)} :
             \E p98 \in Reached(out.raised # ""
                                /\ ~Escapes(out.raised, ExceptClause_report)) :
                /\ calls' = Append(calls, <<"pip", "list", "--format=json">>)
                /\ list_result' = [result |-> r,
                                   write |-> IF opened THEN w ELSE "",
                                   cut |-> cut,
                                   raised |-> out.raised, count |-> out.count]
                /\ file' = out.file
                /\ IF Escapes(out.raised, ExceptClause_report) \/ p98 # ""
                   THEN Uncaught("generate_dependency_report")
                   ELSE /\ pc' = MainNext(pc)
                        /\ UNCHANGED <<all_ok, idx, shown, verdicts,
                                       exit_code, traceback, sys_stdout>>
    /\ UNCHANGED <<conflicts_ok, versions_ok, check_result, va, vb, lt>>

\* Lines 105-110: the banner and sys.exit.  The print of the banner is
\* outside any try.  After sys.exit the interpreter flushes standard output.
main_exit ==
    /\ pc = "main_105"
    /\ \E p \in PrintOutcomes :
        IF p # ""
        THEN Uncaught("<module>")
        ELSE /\ \E flushed \in FlushOutcomes :
                /\ exit_code' = ProcessStatus(
                                    ExitStatus(conflicts_ok, versions_ok),
                                    flushed)
                /\ sys_stdout' = IF flushed THEN "flushed" ELSE "flush_failed"
             /\ pc' = "done"
             /\ UNCHANGED <<all_ok, idx, shown, verdicts, traceback>>
    /\ UNCHANGED <<conflicts_ok, versions_ok, check_result, list_result,
                   calls, file, va, vb, lt>>

Next ==
    \/ check_dependency_conflicts
    \/ check_critical_versions_enter
    \/ check_critical_versions_loop
    \/ check_critical_versions_return
    \/ generate_dependency_report
    \/ main_exit

Spec == Init /\ [][Next]_vars

(***************************************************************************)
(* The version comparison of lines 62 and 65 on its own: two release       *)
(* versions, written out as the strings 'pip show' prints, are compared.   *)
(***************************************************************************)
\* Longest release, in components.
MaxComponents == 3
\* Values of a release component.
ComponentValues == {0, 1, 2, 9, 10}

\* '.'.join(str(n) for n in nums)
RECURSIVE FormatRelease(_)
FormatRelease(nums) ==
    IF Len(nums) = 1 THEN ToDigits(nums[1])
    ELSE ToDigits(nums[1]) \o <<".">> \o FormatRelease(Tail(nums))

ReleaseTuples ==
    UNION { [1..n -> ComponentValues] : n \in 1..MaxComponents }

Operands == { [nums |-> t, text |-> FormatRelease(t)] : t \in ReleaseTuples }

InitCmp ==
    /\ pc = "compare"
    /\ va \in Operands
    /\ vb \in Operands
    /\ lt = FALSE
    /\ conflicts_ok = FALSE
    /\ versions_ok = FALSE
    /\ all_ok = FALSE
    /\ idx = 0
    /\ shown = <<>>
    /\ verdicts = <<>>
    /\ check_result = NoResult
    /\ list_result = NoListResult
    /\ calls = <<>>
    /\ file = NoFile
    /\ exit_code = -1
    /\ traceback = ""
    /\ sys_stdout = "open"

\* version.parse(a) < version.parse(b)
compare_versions ==
    /\ pc = "compare"
    /\ lt' = VersionLess(va.text, vb.text)
    /\ pc' = "compared"
    /\ UNCHANGED <<conflicts_ok, versions_ok, all_ok, idx, shown, verdicts,
                   check_result, list_result, calls, file, exit_code,
                   traceback, va, vb, sys_stdout>>

NextCmp == compare_versions

SpecCmp == InitCmp /\ [][NextCmp]_vars

(***************************************************************************)
(* Properties.                                                             *)
(***************************************************************************)
TableOrder == [i \in 1..Len(critical_packages) |-> critical_packages[i].package]
ShowCall(package) == <<"pip", "show", package>>
ShowCallsOf(n) == [i \in 1..n |-> ShowCall(TableOrder[i])]
FullCallOrder ==
    <<<<"pip", "check">>>> \o ShowCallsOf(Len(critical_packages))
    \o <<<<"pip", "list", "--format=json">>>>

IsPrefix(a, b) == Len(a) <= Len(b) /\ SubSeq(b, 1, Len(a)) = a

\* The loop of check_critical_versions has ended and line 75 returns all_ok.
LoopDone == pc = "main_102" /\ idx = Len(critical_packages) + 1
AfterVersions == pc \in {"main_103", "main_105", "done"}
AfterReport == pc \in {"main_105", "done"}

\* Numeric order of releases, component by component, a missing component
\* counting as zero.
Component(t, i) == IF i <= Len(t) THEN t[i] ELSE 0
NumericLess(a, b) ==
    \E i \in 1..(Len(a) + Len(b)) :
        /\ Component(a, i) < Component(b, i)
        /\ \A j \in 1..(i - 1) : Component(a, j) = Component(b, j)

\* The version a 'pip show' output reports: its first 'Version:' line.
VersionLines(stdout) ==
    LET lines == Split(stdout, "\n")
    IN  {i \in 1..Len(lines) : StartsWith(lines[i], VersionPrefix)}
ReportedVersion(stdout) ==
    LET lines == Split(stdout, "\n")
    IN  Strip(Split(lines[Min(VersionLines(stdout))], ":")[2])

\* The package is installed and its version is known and not below minimum.
AtLeastMinimum(entry, r) ==
    /\ r.raises = ""
    /\ r.returncode = 0
    /\ VersionLines(r.stdout) # {}
    /\ LET reported == ParseVersion(ReportedVersion(r.stdout))
       IN  /\ reported.ok
           /\ ~ParsedLess(reported, ParseVersion(entry.min_ver))

AboveMaximum(entry, r) ==
    /\ Truthy(entry.max_ver)
    /\ VersionLess(entry.max_ver, ReportedVersion(r.stdout))

\* C1: when the entry point has reached its exit, the exit code of the
\* process is 0 exactly when both check_dependency_conflicts and
\* check_critical_versions returned true, and 1 otherwise, whatever
\* generate_dependency_report did.
C1_ExitCodeIsConjunction ==
    pc = "done" =>
        /\ exit_code \in {0, 1}
        /\ exit_code = 0 <=> (conflicts_ok /\ versions_ok)

\* C2: check_critical_versions returns true only if every critical package
\* is installed with a determinable version that is not below its minimum.
C2_TrueOnlyIfAllAtLeastMinimum ==
    (LoopDone /\ all_ok) =>
        \A i \in 1..Len(critical_packages) :
            AtLeastMinimum(critical_packages[i], shown[i])

\* C3: if every critical package is installed with a parseable version at or
\* above its minimum, check_critical_versions returns true; a version above
\* the maximum only gets the 'exceeds maximum' message.
C3_AllAtLeastMinimumGivesTrue ==
    LoopDone =>
        /\ (\A i \in 1..Len(critical_packages) :
                AtLeastMinimum(critical_packages[i], shown[i])) => all_ok
        /\ \A i \in 1..Len(critical_packages) :
                (AtLeastMinimum(critical_packages[i], shown[i])
                 /\ AboveMaximum(critical_packages[i], shown[i]))
                => verdicts[i] = Verdict("exceeds maximum")

\* C4: the conflict check, the version check and the report run in this
\* order; the report is started in every run, and the exit comes after it.
C4_StepOrder ==
    /\ IsPrefix(calls, FullCallOrder)
    /\ pc = "main_101" => calls = <<>>
    /\ pc = "main_102" => calls = <<<<"pip", "check">>>> \o ShowCallsOf(Len(shown))
    /\ pc = "main_103" => calls = SubSeq(FullCallOrder, 1, Len(FullCallOrder) - 1)
    /\ AfterReport => calls = FullCallOrder
    /\ pc = "crashed" => traceback \in {"generate_dependency_report", "<module>"}

\* The report file parses into a list of n elements.
HoldsListOf(f, n) ==
    /\ f.exists
    /\ JsonLoads(f.text).ok
    /\ JsonLoads(f.text).val.k = "array"
    /\ Len(JsonLoads(f.text).val.items) = n

\* C5 as stated: after generate_dependency_report has returned, the file
\* holds a JSON list, as long as the count the step printed, for every
\* outcome of 'pip list' and of the write.
C5_AlwaysValidJson ==
    AfterReport =>
        \E n \in 0..MaxInstalled :
            /\ HoldsListOf(file, n)
            /\ list_result.count \in {-1, n}

\* C5 amended: when the output of 'pip list' parsed as a JSON array, its
\* length was printed and the file was opened and written without error,
\* the file parses into a list of the length of that array, which is the
\* count printed, whatever the earlier checks returned and however the step
\* ends after the write.
C5_ValidJsonWhenWritten ==
    list_result.write = "ok" =>
        LET packages == JsonLoads(list_result.result.stdout).val
        IN  packages.k = "array" =>
                /\ HoldsListOf(file, Len(packages.items))
                /\ list_result.count = Len(packages.items)

\* Both checks failed and the report of two packages was written.
C5_Witness ==
    /\ pc = "done"
    /\ ~conflicts_ok
    /\ ~versions_ok
    /\ list_result.write = "ok"
    /\ list_result.count = 2
    /\ HoldsListOf(file, 2)

\* How far the run has come: every step of the script moves it forward.
Rank ==
    CASE pc = "main_101" -> 0
      [] pc = "main_102" -> 1 + idx
      [] pc = "main_103" -> 2 + Len(critical_packages) + 1
      [] pc = "main_105" -> 3 + Len(critical_packages) + 1
      [] OTHER -> 4 + Len(critical_packages) + 1

\* C6: no exception leaves the three functions, and every run ends at the
\* final exit with code 0 or 1: no state is a crash, every state before the
\* exit has a next step, and every step moves the run forward.
C6_NoUncaughtFault ==
    /\ [](/\ pc # "crashed"
          /\ pc = "done" => exit_code \in {0, 1}
          /\ pc # "done" => ENABLED Next)
    /\ [][Rank' > Rank]_vars

\* C7: in every run of check_critical_versions every table entry is queried
\* with 'pip show' exactly once, in table order, whatever happened to the
\* entries before it; a caught error sets the overall result to false.
C7_EveryPackageQueried ==
    /\ (pc = "main_102" /\ idx >= 1) =>
            /\ Len(shown) = idx - 1
            /\ calls = <<<<"pip", "check">>>> \o ShowCallsOf(idx - 1)
            /\ \A i \in 1..Len(verdicts) : verdicts[i].raised # "" => ~all_ok
    /\ (AfterVersions \/ (pc = "crashed"
                          /\ traceback # "check_dependency_conflicts")) =>
            /\ Len(calls) >= Len(critical_packages) + 1
            /\ SubSeq(calls, 2, Len(critical_packages) + 1)
                    = ShowCallsOf(Len(critical_packages))

\* C8: check_dependency_conflicts returns true exactly when 'pip check' was
\* invoked without error and exited with 0, and never raises.
C8_ConflictsResult ==
    /\ traceback # "check_dependency_conflicts"
    /\ pc # "main_101" =>
        (conflicts_ok <=> (check_result.raises = ""
                           /\ check_result.returncode = 0))

\* C9: the comparison orders release versions by their integer components
\* from left to right, not as strings, so "1.9.0" < "1.10.0" < "2.0.0".
C9_NumericOrder ==
    pc = "compared" => (lt <=> NumericLess(va.nums, vb.nums))

\* "1.9.0" was found smaller than "1.10.0".
C9_Witness ==
    /\ pc = "compared"
    /\ va.text = <<"1", ".", "9", ".", "0">>
    /\ vb.text = <<"1", ".", "1", "0", ".", "0">>
    /\ lt

\* generate_dependency_report has invoked 'pip list' in this step, and the
\* invocation raised or its output did not parse.
ListFailed ==
    /\ pc = "main_103"
    /\ calls' # calls
    /\ \/ list_result'.result.raises # ""
       \/ ~JsonLoads(list_result'.result.stdout).ok

\* dependency_report.json changes only in generate_dependency_report and
\* only when 'pip list' ran and its output parsed as JSON.
FileFrame ==
    file' # file =>
        /\ pc = "main_103"
        /\ list_result'.result.raises = ""
        /\ JsonLoads(list_result'.result.stdout).ok

\* C10 as stated: dependency_report.json changes only in
\* generate_dependency_report and only when 'pip list' ran and its output
\* parsed as JSON; when the invocation raises or the output does not parse,
\* the step returns with the file unchanged.
C10_FileFrameAndReturn ==
    [][/\ FileFrame
       /\ ListFailed => (file' = file /\ pc' = "main_105")]_vars

\* C10 amended: dependency_report.json changes only in
\* generate_dependency_report and only when 'pip list' ran and its output
\* parsed as JSON; when the invocation raises or the output does not parse,
\* the step ends with the file unchanged, by returning or, when the print in
\* its handler fails, by an exception raised in generate_dependency_report.
C10_FileFrame ==
    [][/\ FileFrame
       /\ ListFailed =>
            /\ file' = file
            /\ \/ pc' = "main_105"
               \/ pc' = "crashed" /\ traceback' = "generate_dependency_report"]_vars

\* 'pip list' output did not parse and the old report is still there.
C10_Witness ==
    /\ AfterReport
    /\ list_result.raised = "JSONDecodeError"
    /\ file = OldReport

====
